---- MODULE Spec2Model ----
(***************************************************************************)
(* Control flow of the research bot: the ConversationManager phase machine *)
(* (research_bot/conversation_manager.py), the ResearchManager pipeline    *)
(* clarify -> plan -> search -> write (research_bot/manager.py), the       *)
(* interactive clarifier (research_bot/clarify_with_feedback.py) and the   *)
(* turn boundary of the Streamlit front-end (research_bot/ui/app.py); and  *)
(* the chat handler of the real-estate assistant                           *)
(* (RealState_Assistant/src/ui/utils.py).                                  *)
(*                                                                         *)
(* Python strings are sequences of tokens: "" is << >>, concatenation and  *)
(* f-strings are \o, str.join is Join.  Every call into the external agent *)
(* runner is a suspension point: the action that issues the call ends      *)
(* there and the result (a value or an exception) is the input of the next *)
(* action.                                                                 *)
(***************************************************************************)
EXTENDS Integers, Sequences, FiniteSets, TLC

VARIABLES
    entry,              \* which program runs: "ui" (ui/app.py), "cli" (main.py),
                        \* "interactive" (clarify_with_feedback.py), "assistant" (utils.py)
    phase,              \* ConversationManager.phase
    clar_res,           \* ConversationManager.clar_res
    context_summaries,  \* ConversationManager.context_summaries
    last_report,        \* ConversationManager.last_report
    initial_query,      \* ConversationManager.initial_query
    pc,                 \* position of the running coroutine
    phase0,             \* phase found by the handle_user_message call in progress
    user_msg,           \* argument of handle_user_message / the query read by main()
    prompt,             \* prompt of the clarifier call in flight
    clarified_query,    \* local clarified_query / value returned by _clarify_query
    assistant_messages, \* local assistant_messages, the value handle_user_message returns
    error,              \* the exception that left the coroutine
    calls,              \* Runner invocations of the current turn, in call order
    outputs,            \* results the clarifier returned in the current turn, in order
                        \* (assistant: the event the stream handed over last)
    round_idx,          \* _clarify_query: loop index
    current_query,      \* _clarify_query: current_query
    answers,            \* _clarify_query / clarify_query_interactively: answers
    search_plan,        \* WebSearchPlan.searches returned by the planner
    tasks,              \* _perform_searches: one asyncio task per planned item
    num_completed,      \* _perform_searches: num_completed
    results,            \* _perform_searches: results
    run_query,          \* ResearchManager.run: clarified_query
    report,             \* value returned by ResearchManager.run
    progress,           \* calls made on the printer for its item "searching", in order
    messages,           \* st.session_state["messages"]
    processing,         \* st.session_state.processing
    current_followups,  \* st.session_state.current_followups
    current_report,     \* st.session_state.current_report
    api_key_missing,    \* real-estate assistant: st.session_state["api_key_missing"]
    use_streaming,      \* real-estate assistant: st.session_state["use_streaming"]
    full_response,      \* real-estate assistant: full_response of the reply being built
    steps,              \* real-estate assistant: steps of the reply being built
    current_agent,      \* generate_response_stream: current_agent
    stream_pos          \* generate_response_stream: events consumed from the stream

vars == << entry, phase, clar_res, context_summaries, last_report, initial_query,
           pc, phase0, user_msg, prompt, clarified_query, assistant_messages, error,
           calls, outputs, round_idx, current_query, answers, search_plan, tasks,
           num_completed, results, run_query, report, progress, messages, processing,
           current_followups, current_report, api_key_missing, use_streaming,
           full_response, steps, current_agent, stream_pos >>

conv_vars == << phase, clar_res, context_summaries, last_report, initial_query >>
clarify_vars == << round_idx, current_query, answers >>
search_vars == << search_plan, tasks, num_completed, results, progress >>
ui_vars == << messages, processing, current_followups, current_report >>
assistant_vars == << api_key_missing, use_streaming, full_response, steps, current_agent,
                     stream_pos >>

-----------------------------------------------------------------------------
(* Bounds of the model *)

MaxTurns == 3       \* user messages per UI session
MaxPlan == 2        \* items of a search plan
MaxAsk == 2         \* rounds in which the interactive clarifier asks again
MaxRounds == 4      \* the same, with the agent that may return any output
MaxCycles == 5      \* user messages of the long UI session
MaxChat == 2        \* prompts of a real-estate assistant session
MaxEvents == 2      \* events of one streamed reply
MaxQuestionLen == 4 \* characters of a follow-up question

(* Program constants *)

max_rounds == 3     \* manager.py: max_rounds
ContextWindow == 3  \* conversation_manager.py: context_summaries[-3:]

-----------------------------------------------------------------------------
(* Python values *)

None == <<"None">>                  \* None where a str is expected
NoObject == [is_none |-> TRUE]      \* None where an object is expected

Truthy(s) == s # None /\ s # << >>

\* a or b
OrElse(a, b) == IF Truthy(a) THEN a ELSE b

\* sep.join(xs)
RECURSIVE Join(_, _)
Join(sep, xs) ==
    IF xs = << >> THEN << >>
    ELSE IF Len(xs) = 1 THEN xs[1]
    ELSE xs[1] \o sep \o Join(sep, Tail(xs))

\* xs[:n]
FirstN(xs, n) ==
    IF Len(xs) <= n THEN xs ELSE SubSeq(xs, 1, n)

\* xs[-n:]
LastN(xs, n) ==
    IF Len(xs) <= n THEN xs ELSE SubSeq(xs, Len(xs) - n + 1, Len(xs))

\* str(list of str)
ListRepr(xs) ==
    <<"[">> \o Join(<<", ">>, [i \in 1..Len(xs) |-> <<"'">> \o xs[i] \o <<"'">>]) \o <<"]">>

-----------------------------------------------------------------------------
(* Inputs: what the user types and what the agents return *)

UserMsgs == {<<"u1">>, <<"u2">>}
CliQueries == {<< >>, <<"u1">>}
UserAnswers == {<< >>, <<"a1">>}

Q1 == [question |-> <<"q1?">>, reason |-> <<"why1">>]
Q2 == [question |-> <<"q2?">>, reason |-> <<"why2">>]

ClarRes(n, cq, qs) ==
    [needs_clarification |-> n, clarified_query |-> cq,
     clarification_questions |-> qs, reasoning |-> <<"because">>]

ClarResults ==
    { ClarRes(FALSE, None, << >>), ClarRes(FALSE, << >>, << >>),
      ClarRes(FALSE, <<"cq">>, << >>),
      ClarRes(TRUE, None, <<Q1, Q2>>), ClarRes(TRUE, <<"cq">>, <<Q2>>),
      ClarRes(TRUE, None, << >>) }

Digits == <<"1", "2", "3", "4", "5", "6", "7", "8", "9">>
Item(i) == [reason |-> <<"reason ", Digits[i]>>, query |-> <<"term ", Digits[i]>>]
Plans == { [i \in 1..n |-> Item(i)] : n \in 0..MaxPlan }

Reports ==
    { [short_summary |-> <<"sumA">>, markdown_report |-> <<"# A">>,
       follow_up_questions |-> << <<"f1">>, <<"f2">> >>],
      [short_summary |-> <<"sumB">>, markdown_report |-> <<"# B">>,
       follow_up_questions |-> << >>] }

Errors == [clarifier |-> <<"clarifier failed">>, planner |-> <<"planner failed">>,
           writer |-> <<"writer failed">>]

\* the AttributeError raised by reading attr of an output that has no such
\* attribute (here a str)
AttributeError(attr) == <<"'str' object has no attribute '", attr, "'">>

Call(agent, input) == [agent |-> agent, input |-> input]

-----------------------------------------------------------------------------
(* research_bot/conversation_manager.py *)

\* line 63 (the source text ends with a one-character ellipsis)
WaitMessage ==
    [role |-> "assistant", content |-> <<"Please wait while I finish the research...">>]

\* lines 52-54
CombinedPrompt(initial, msg) ==
    <<"Original query: ">> \o initial \o <<"\n\nUser clarifications:\n">> \o msg

\* QuestionText that shows the first question only
QuestionTextFirst(res) ==
    IF res.clarification_questions = << >> THEN << >>
    ELSE res.clarification_questions[1].question

\* line 40
QuestionText(res) ==
    Join(<<"\n">>, [i \in 1..Len(res.clarification_questions) |->
                        res.clarification_questions[i].question])

\* lines 78-82
ResearchInput(summaries, query) ==
    IF summaries # << >>
    THEN <<"Previous context:\n">> \o Join(<<"\n---\n">>, LastN(summaries, ContextWindow))
         \o <<"\n\nCurrent query: ">> \o query
    ELSE query

\* ReportToMessages with the summary and the follow-ups in one message
ReportAsOneMessage(rep) ==
    << [role |-> "assistant",
        content |-> <<"### Research Complete\n\n**Summary:** ">> \o rep.short_summary
                    \o <<"\n\n">> \o Join(<<"\n\n">>, rep.follow_up_questions)] >>

\* lines 96-106
ReportToMessages(rep) ==
    << [role |-> "assistant",
        content |-> <<"### Research Complete\n\n**Summary:** ">> \o rep.short_summary],
       [role |-> "assistant",
        content |-> Join(<<"\n\n">>, rep.follow_up_questions)] >>

\* Branch with the final else taken for a fresh query
BranchElseQuery(ph) ==
    CASE ph = "clarify" -> "answer"
      [] OTHER -> "query"

\* conversation_manager.py 34, 50, 61: the branch handle_user_message takes
Branch(ph) ==
    CASE ph = "waiting_query" -> "query"
      [] ph = "clarify" -> "answer"
      [] OTHER -> "wait"

\* SaveReport without the assignment to last_report
SaveSummaryOnly(rep) ==
    /\ context_summaries' = Append(context_summaries, rep.short_summary)
    /\ UNCHANGED last_report

\* SaveReport without the append to context_summaries
SaveLastReportOnly(rep) ==
    /\ last_report' = rep
    /\ UNCHANGED context_summaries

\* conversation_manager.py 88-91: _run_research keeps the summary and the report
SaveReport(rep) ==
    /\ context_summaries' = Append(context_summaries, rep.short_summary)
    /\ last_report' = rep

\* Clarified without the fallback
ClarifiedAsGiven(res, fallback) == res.clarified_query

\* conversation_manager.py 46, 57; manager.py 79: clar_res.clarified_query or <fallback>
Clarified(res, fallback) == OrElse(res.clarified_query, fallback)

-----------------------------------------------------------------------------
(* research_bot/manager.py *)

\* line 122
PlannerInput(query) == <<"Query: ">> \o query

\* line 151
SearchInput(item) ==
    <<"Search term: ">> \o item.query \o <<"\nReason for searching: ">> \o item.reason

\* line 161
WriterInput(query, search_results) ==
    <<"Original query: ">> \o query \o <<"\nSummarized search results: ">>
    \o ListRepr(search_results)

\* lines 103-105
ManagerPrompt(query, ans) ==
    <<"Original query: ">> \o query \o <<"\n\nUser clarifications:\n">> \o Join(<<"\n">>, ans)

\* LoopContinues off by one
LoopContinuesOneMore(idx) == idx + 1 <= max_rounds

\* line 72: the loop runs another round after round idx
LoopContinues(idx) == idx + 1 < max_rounds

\* Fallback to the query as first typed
FallbackOriginal(query, current) == query

\* lines 107-113: what _clarify_query returns once the rounds are used up
Fallback(query, current) == current

\* line 100
AnswerLine(q, a) == <<"Q: ">> \o q.question \o <<"\nA: ">> \o a

\* CreateTasks that leaves out the last planned item
CreateTasksButLast(searches) ==
    [i \in 1..(Len(searches) - 1) |-> [item |-> searches[i], state |-> "running",
                                       raised |-> FALSE, result |-> None]]

\* lines 136, 149-156: one task per planned item, each running _search(item)
CreateTasks(searches) ==
    [i \in 1..Len(searches) |-> [item |-> searches[i], state |-> "running",
                                 raised |-> FALSE, result |-> None]]

\* line 154: str(result.final_output)
Summary(item) == <<"summary of ">> \o item.query

\* _search that returns the error text of a failed search
SearchResultErrorText(raised, output) == IF raised THEN <<"search failed">> ELSE output

\* lines 152-156: what _search returns
SearchResult(raised, output) == IF raised THEN None ELSE output

\* Collect that keeps the result of a failed search as well
CollectAll(res, result) == Append(res, result)

\* lines 140-141
Collect(res, result) == IF result # None THEN Append(res, result) ELSE res

\* Counted for a loop that counts the searches that produced a summary
CountedIfResult(n, result) == IF result # None THEN n + 1 ELSE n

\* line 142: num_completed after the iteration that received result
Counted(n, result) == n + 1

\* str(n)
Str(n) == IF n = 0 THEN "0" ELSE Digits[n]

\* line 134: printer.update_item("searching", "Searching...")
SearchingStarted == [op |-> "update_item", text |-> <<"Searching...">>]

\* lines 143-145: printer.update_item("searching", f"Searching... {n}/{m} completed")
SearchingProgress(n, m) ==
    [op |-> "update_item", text |-> <<"Searching... ", Str(n), "/", Str(m), " completed">>]

\* line 146: printer.mark_item_done("searching")
SearchingDone == [op |-> "mark_item_done", text |-> << >>]

\* AllCompleted for a loop that stops at the first completed task
AnyCompleted(ts) == \E i \in 1..Len(ts) : ts[i].state = "done"

\* line 138: asyncio.as_completed(tasks) has handed over every task
AllCompleted(ts) == \A i \in 1..Len(ts) : ts[i].state = "done"

-----------------------------------------------------------------------------
(* research_bot/clarify_with_feedback.py *)

NotAClarificationResult == [needs_clarification |-> FALSE, clarified_query |-> None,
                            clarification_questions |-> << >>, reasoning |-> << >>,
                            not_a_result |-> TRUE]

\* line 38: isinstance(clar_result, ClarificationResult)
IsClarificationResult(r) == "not_a_result" \notin DOMAIN r

\* manager.py 75-78, conversation_manager.py 37-38, 55-57: the output is used
\* as a ClarificationResult without a test; only a ClarificationResult has
\* the attributes read from it
HasResultAttributes(r) == IsClarificationResult(r)

\* line 42: the loop asks the user and goes round again
InteractiveAsks(out) ==
    /\ IsClarificationResult(out)
    /\ out.needs_clarification
    /\ out.clarification_questions # << >>

\* lines 9-15
BuildPrompt(original_query, ans) ==
    IF ans = << >> THEN original_query
    ELSE <<"Original query: ">> \o original_query \o <<"\n">>
         \o Join(<<"\n">>, [i \in 1..Len(ans) |-> <<"Answer ", Digits[i], ": ">> \o ans[i]])

-----------------------------------------------------------------------------
(* research_bot/ui/app.py *)

\* the tokens in which the text "Research Complete" occurs
ResearchCompleteTokens ==
    {"### Research Complete\n\n**Summary:** ", "Is the Research Complete?"}

\* lines 64, 77, 162: "Research Complete" in content
HasResearchComplete(content) ==
    \E i \in 1..Len(content) : content[i] \in ResearchCompleteTokens

Whitespace == {" ", "\n", "\n\n"}

RECURSIVE LStrip(_)
LStrip(s) == IF s # << >> /\ s[1] \in Whitespace THEN LStrip(Tail(s)) ELSE s

RECURSIVE RStrip(_)
RStrip(s) ==
    IF s # << >> /\ s[Len(s)] \in Whitespace THEN RStrip(SubSeq(s, 1, Len(s) - 1)) ELSE s

\* s.strip()
Strip(s) == RStrip(LStrip(s))

\* the characters of s: the blank-line token is a line feed followed by a
\* line feed
RECURSIVE Expand(_)
Expand(s) ==
    IF s = << >> THEN << >>
    ELSE (IF s[1] = "\n\n" THEN <<"\n", "\n">> ELSE << s[1] >>) \o Expand(Tail(s))

\* sep occurs in s at position i
OccursAt(s, sep, i) ==
    i + Len(sep) - 1 <= Len(s) /\ SubSeq(s, i, i + Len(sep) - 1) = sep

\* s.split(sep): the pieces between the occurrences of sep, found from the left
RECURSIVE Split(_, _)
Split(s, sep) ==
    IF \E i \in 1..Len(s) : OccursAt(s, sep, i)
    THEN LET i == CHOOSE k \in 1..Len(s) :
                     OccursAt(s, sep, k) /\ \A j \in 1..(k - 1) : ~OccursAt(s, sep, j)
         IN  << SubSeq(s, 1, i - 1) >> \o Split(SubSeq(s, i + Len(sep), Len(s)), sep)
    ELSE << s >>

NotEmpty(s) == s # << >>

\* ParseFollowups that takes every line for a question
ParseFollowupsByLine(content) ==
    LET pieces == Split(Strip(Expand(content)), <<"\n">>)
    IN  SelectSeq([i \in 1..Len(pieces) |-> Strip(pieces[i])], NotEmpty)

\* lines 187-189: the questions read back from the content of the last message
ParseFollowups(content) ==
    LET pieces == Split(Strip(Expand(content)), <<"\n", "\n">>)
    IN  SelectSeq([i \in 1..Len(pieces) |-> Strip(pieces[i])], NotEmpty)

\* lines 162-167: a research-completion message gets the controller's last report
AttachReport(msg, rep) ==
    IF msg.role = "assistant" /\ HasResearchComplete(msg.content) /\ rep # NoObject
    THEN [role |-> msg.role, content |-> msg.content, report_data |-> rep]
    ELSE msg

\* what the page shows for a message that gets no full-report panel
NoPanel == <<"(no panel)">>

\* Panel as research_bot/ui_streamlit.py draws it: the report of the latest cycle
PanelOfLatest(msg, latest) ==
    IF msg.role = "assistant" /\ HasResearchComplete(msg.content) /\ latest # NoObject
    THEN latest.markdown_report
    ELSE NoPanel

\* lines 57-67: display_message, the text of the full-report panel of a
\* message (latest is the controller's last_report, which the page can see)
Panel(msg, latest) ==
    IF /\ msg.role = "assistant"
       /\ HasResearchComplete(msg.content)
       /\ "report_data" \in DOMAIN msg
    THEN msg.report_data.markdown_report
    ELSE NoPanel

\* Extend for a front-end that keeps the latest reply only
Overwrite(log, msgs) == msgs

\* lines 159-170: the messages of the reply are appended to the chat log one by one
Extend(log, msgs) == log \o msgs

\* lines 155-191: process_assistant_messages
ProcessAssistantMessages(msgs) ==
    LET found == \E i \in 1..Len(msgs) :
                    msgs[i].role = "assistant" /\ HasResearchComplete(msgs[i].content)
        last == msgs[Len(msgs)]
    IN  /\ messages' = Extend(messages,
                              [i \in 1..Len(msgs) |-> AttachReport(msgs[i], last_report)])
        /\ current_report' =
              IF found /\ last_report # NoObject THEN last_report ELSE current_report
        /\ current_followups' =
              IF /\ found
                 /\ Len(msgs) >= 2
                 /\ last.role = "assistant"
                 /\ Strip(last.content) # << >>
                 /\ ParseFollowups(last.content) # << >>
              THEN ParseFollowups(last.content)
              ELSE current_followups

\* ErrorReply that also logs the text shown by st.error
ErrorReplyAndNotice(e) ==
    << [role |-> "assistant", content |-> <<"An error occurred: ">> \o e],
       [role |-> "assistant", content |-> <<"Sorry, I encountered an error: ">> \o e] >>

\* lines 221-225: what the except branch appends to the chat log
ErrorReply(e) ==
    << [role |-> "assistant", content |-> <<"Sorry, I encountered an error: ">> \o e] >>

\* lines 71-77: the follow-up buttons are drawn
FollowupsDisplayed ==
    /\ current_followups # << >>
    /\ messages # << >>
    /\ messages[Len(messages)].role = "assistant"
    /\ HasResearchComplete(messages[Len(messages)].content)

\* InputEnabled for a front-end that reads its input while a run is going on
InputAlwaysEnabled == TRUE

\* lines 240-243, 207-211: the chat input is read by a run of the script, and
\* run_async_in_streamlit keeps the script in handle_user_input until
\* handle_user_message has returned or raised
InputEnabled == pc = "idle" /\ ~processing

-----------------------------------------------------------------------------
\* the state every program starts in
Fresh ==
    /\ phase = "waiting_query"
    /\ clar_res = NoObject
    /\ context_summaries = << >>
    /\ last_report = NoObject
    /\ initial_query = << >>
    /\ pc = "idle"
    /\ phase0 = "none"
    /\ user_msg = << >>
    /\ prompt = << >>
    /\ clarified_query = None
    /\ assistant_messages = << >>
    /\ error = None
    /\ calls = << >>
    /\ outputs = << >>
    /\ round_idx = 0
    /\ current_query = << >>
    /\ answers = << >>
    /\ search_plan = << >>
    /\ tasks = << >>
    /\ num_completed = 0
    /\ results = << >>
    /\ run_query = << >>
    /\ report = NoObject
    /\ progress = << >>
    /\ messages = << >>
    /\ processing = FALSE
    /\ current_followups = << >>
    /\ current_report = NoObject
    /\ api_key_missing = TRUE
    /\ use_streaming = TRUE
    /\ full_response = << >>
    /\ steps = << >>
    /\ current_agent = << >>
    /\ stream_pos = 0

Init == entry \in {"ui", "cli", "interactive"} /\ Fresh

-----------------------------------------------------------------------------
(* The pipeline of ResearchManager.run, shared by the UI session (through   *)
(* ConversationManager._run_research) and by main.py                        *)

\* manager.py 43-44, 115-122: run hands the clarified query to _plan_searches,
\* which calls the planner
CallPlanner(query) ==
    /\ run_query' = query
    /\ calls' = Append(calls, Call("planner", PlannerInput(query)))
    /\ pc' = "plan"

\* conversation_manager.py 76-87: _run_research builds the combined prompt and
\* runs a ResearchManager whose _clarify_query returns its argument
RunResearch(query) == CallPlanner(ResearchInput(context_summaries, query))

\* manager.py 124-129, 131-137: the planner returns; _perform_searches creates a
\* task per planned item and each task calls the search agent
PlannerReturn(plan) ==
    /\ pc = "plan"
    /\ search_plan' = plan
    /\ tasks' = CreateTasks(plan)
    /\ calls' = calls \o [i \in 1..Len(tasks') |-> Call("search", SearchInput(tasks'[i].item))]
    /\ num_completed' = 0
    /\ results' = << >>
    /\ progress' = << SearchingStarted >>
    /\ pc' = "search"
    /\ UNCHANGED << entry, assistant_vars, conv_vars, phase0, user_msg, prompt, clarified_query,
                    assistant_messages, error, outputs, clarify_vars, run_query, report,
                    ui_vars >>

\* manager.py 122: the planner call raises; nothing on the way catches it
PlannerFail ==
    /\ pc = "plan"
    /\ error' = Errors.planner
    /\ pc' = "raised"
    /\ UNCHANGED << entry, assistant_vars, conv_vars, phase0, user_msg, prompt, clarified_query,
                    assistant_messages, calls, outputs, clarify_vars, search_vars,
                    run_query, report, ui_vars >>

\* manager.py 149-156, 138-145: the search call of task i returns or raises, the
\* task ends with what _search returns, and as_completed hands it to the loop,
\* which runs one iteration for it (tasks are handed over in completion order)
SearchComplete(i, raised) ==
    /\ pc = "search"
    /\ i \in 1..Len(tasks)
    /\ tasks[i].state = "running"
    /\ tasks' = [tasks EXCEPT ![i] =
                    [@ EXCEPT !.state = "done", !.raised = raised,
                              !.result = SearchResult(raised, Summary(tasks[i].item))]]
    /\ results' = Collect(results, tasks'[i].result)
    /\ num_completed' = Counted(num_completed, tasks'[i].result)
    /\ progress' = Append(progress, SearchingProgress(num_completed', Len(tasks)))
    /\ UNCHANGED << entry, assistant_vars, conv_vars, pc, phase0, user_msg, prompt, clarified_query,
                    assistant_messages, error, calls, outputs, clarify_vars, search_plan,
                    run_query, report, ui_vars >>

\* manager.py 146-147, 45, 158-162: the loop is over, _perform_searches returns
\* and _write_report calls the writer
PerformSearchesReturn ==
    /\ pc = "search"
    /\ AllCompleted(tasks)
    /\ progress' = Append(progress, SearchingDone)
    /\ calls' = Append(calls, Call("writer", WriterInput(run_query, results)))
    /\ pc' = "write"
    /\ UNCHANGED << entry, assistant_vars, conv_vars, phase0, user_msg, prompt, clarified_query,
                    assistant_messages, error, outputs, clarify_vars, search_plan, tasks,
                    num_completed, results, run_query, report, ui_vars >>

\* manager.py 175-182, 47-59: the writer returns and run returns the report;
\* conversation_manager.py 88-91, 48-49, 59-60, 65: in the UI session
\* _run_research stores it and handle_user_message returns its messages
WriterReturn(rep) ==
    /\ pc = "write"
    /\ report' = rep
    /\ IF entry = "ui"
       THEN /\ SaveReport(rep)
            /\ assistant_messages' = assistant_messages \o ReportToMessages(rep)
            /\ phase' = "waiting_query"
            /\ pc' = "returned"
       ELSE /\ pc' = "done"
            /\ UNCHANGED << context_summaries, last_report, assistant_messages, phase >>
    /\ UNCHANGED << entry, assistant_vars, clar_res, initial_query, phase0, user_msg, prompt,
                    clarified_query, error, calls, outputs, clarify_vars, search_vars,
                    run_query, ui_vars >>

\* manager.py 162-175: the writer call raises; nothing on the way catches it
WriterFail ==
    /\ pc = "write"
    /\ error' = Errors.writer
    /\ pc' = "raised"
    /\ UNCHANGED << entry, assistant_vars, conv_vars, phase0, user_msg, prompt, clarified_query,
                    assistant_messages, calls, outputs, clarify_vars, search_vars,
                    run_query, report, ui_vars >>

-----------------------------------------------------------------------------
(* The UI session: ui/app.py around ConversationManager.handle_user_message *)

UserTurns == Cardinality({i \in 1..Len(messages) : messages[i].role = "user"})

\* the locals of a finished turn go out of scope
ForgetTurn ==
    /\ phase0' = "none"
    /\ user_msg' = << >>
    /\ prompt' = << >>
    /\ clarified_query' = None
    /\ assistant_messages' = << >>
    /\ error' = None
    /\ calls' = << >>
    /\ outputs' = << >>
    /\ search_plan' = << >>
    /\ tasks' = << >>
    /\ num_completed' = 0
    /\ results' = << >>
    /\ progress' = << >>
    /\ run_query' = << >>
    /\ report' = NoObject

\* ui/app.py 240-243, 193-211: the user submits m; handle_user_input logs it and
\* calls handle_user_message (conversation_manager.py 30-37, 50-55, 61-65),
\* which runs up to its first await or, in phase research, to its return
HandleUserInput(m) ==
    /\ entry = "ui"
    /\ InputEnabled
    /\ current_followups' = << >>
    /\ current_report' = NoObject
    /\ processing' = TRUE
    /\ messages' = Append(messages, [role |-> "user", content |-> m])
    /\ user_msg' = m
    /\ phase0' = phase
    /\ CASE Branch(phase) = "query" ->
              /\ initial_query' = m
              /\ prompt' = m
              /\ calls' = << Call("clarifier", m) >>
              /\ assistant_messages' = << >>
              /\ pc' = "clarifier"
         [] Branch(phase) = "answer" ->
              /\ prompt' = CombinedPrompt(initial_query, m)
              /\ calls' = << Call("clarifier", prompt') >>
              /\ assistant_messages' = << >>
              /\ pc' = "clarifier"
              /\ UNCHANGED initial_query
         [] OTHER ->
              /\ assistant_messages' = << WaitMessage >>
              /\ calls' = << >>
              /\ pc' = "returned"
              /\ UNCHANGED << initial_query, prompt >>
    /\ UNCHANGED << entry, assistant_vars, phase, clar_res, context_summaries, last_report,
                    clarified_query, error, outputs, clarify_vars, search_vars,
                    run_query, report >>

\* conversation_manager.py 37-47, 55-58: the clarifier call returns res
ClarifierReturn(res) ==
    /\ entry = "ui"
    /\ pc = "clarifier"
    /\ outputs' = Append(outputs, res)
    /\ IF ~HasResultAttributes(res)
       THEN \* line 38 or, with phase already set to research by line 56, line 57
            /\ phase' = IF Branch(phase0) = "query" THEN phase ELSE "research"
            /\ error' = AttributeError(IF Branch(phase0) = "query"
                                       THEN "needs_clarification" ELSE "clarified_query")
            /\ pc' = "raised"
            /\ UNCHANGED << clar_res, assistant_messages, clarified_query, run_query, calls >>
       ELSE IF Branch(phase0) = "query" /\ res.needs_clarification
       THEN /\ phase' = "clarify"
            /\ clar_res' = res
            /\ assistant_messages' =
                  Append(assistant_messages,
                         [role |-> "assistant", content |-> QuestionText(res)])
            /\ pc' = "returned"
            /\ UNCHANGED << clarified_query, run_query, calls, error >>
       ELSE /\ phase' = "research"
            /\ clarified_query' =
                  Clarified(res, IF Branch(phase0) = "query" THEN user_msg ELSE prompt)
            /\ RunResearch(clarified_query')
            /\ UNCHANGED << clar_res, assistant_messages, error >>
    /\ UNCHANGED << entry, assistant_vars, context_summaries, last_report, initial_query, phase0,
                    user_msg, prompt, clarify_vars, search_vars, report,
                    ui_vars >>

\* conversation_manager.py 68-74: the clarifier call raises
ClarifierFail ==
    /\ entry = "ui"
    /\ pc = "clarifier"
    /\ error' = Errors.clarifier
    /\ pc' = "raised"
    /\ UNCHANGED << entry, assistant_vars, conv_vars, phase0, user_msg, prompt, clarified_query,
                    assistant_messages, calls, outputs, clarify_vars, search_vars,
                    run_query, report, ui_vars >>

\* ui/app.py 211-215, 155-170: handle_user_message returned; its messages are
\* appended to the chat log
ProcessReply ==
    /\ entry = "ui"
    /\ pc = "returned"
    /\ processing' = FALSE
    /\ ProcessAssistantMessages(assistant_messages)
    /\ pc' = "idle"
    /\ ForgetTurn
    /\ UNCHANGED << entry, assistant_vars, conv_vars, clarify_vars >>

\* ui/app.py 217-229: the exception is caught at the turn boundary
ProcessError ==
    /\ entry = "ui"
    /\ pc = "raised"
    /\ processing' = FALSE
    /\ messages' = messages \o ErrorReply(error)
    /\ pc' = "idle"
    /\ ForgetTurn
    /\ UNCHANGED << entry, assistant_vars, conv_vars, clarify_vars, current_followups,
                    current_report >>

\* ui/app.py 83-91: the user presses the button of follow-up question i; the
\* handler logs the question as a user message, clears the follow-ups and the
\* current report and reruns the script, which finds no chat input to handle
FollowupClick(i) ==
    /\ entry = "ui"
    /\ InputEnabled
    /\ FollowupsDisplayed
    /\ i \in 1..Len(current_followups)
    /\ Strip(current_followups[i]) # << >>
    /\ messages' = Append(messages,
                          [role |-> "user", content |-> Strip(current_followups[i])])
    /\ current_followups' = << >>
    /\ current_report' = NoObject
    /\ UNCHANGED << entry, assistant_vars, conv_vars, pc, phase0, user_msg, prompt,
                    clarified_query, assistant_messages, error, calls, outputs,
                    clarify_vars, search_vars, run_query, report, processing >>

-----------------------------------------------------------------------------
(* main.py: ResearchManager().run(query) with the manager's own _clarify_query *)

\* main.py 6-8; manager.py 41, 61-74: the query is read, the loop starts and
\* round 0 calls the clarifier
CliStart(q) ==
    /\ entry = "cli"
    /\ pc = "idle"
    /\ user_msg' = q
    /\ current_query' = q
    /\ round_idx' = 0
    /\ prompt' = q
    /\ calls' = << Call("clarifier", q) >>
    /\ pc' = "clarify_round"
    /\ UNCHANGED << entry, assistant_vars, conv_vars, phase0, clarified_query, assistant_messages,
                    error, outputs, answers, search_vars, run_query, report, ui_vars >>

\* manager.py 74-113: the clarifier call of round round_idx returns res; when it
\* asks, the user answers ans[i] to question i (an empty answer when stdin is
\* no terminal or at end of input)
CliClarifierReturn(res, ans) ==
    /\ entry = "cli"
    /\ pc = "clarify_round"
    /\ outputs' = Append(outputs, res)
    /\ IF ~HasResultAttributes(res)
       THEN \* line 78
            /\ error' = AttributeError("needs_clarification")
            /\ pc' = "raised"
            /\ UNCHANGED << clarify_vars, prompt, clarified_query, run_query, calls >>
       ELSE IF ~res.needs_clarification
       THEN /\ clarified_query' = Clarified(res, current_query)
            /\ CallPlanner(clarified_query')
            /\ UNCHANGED << clarify_vars, prompt, error >>
       ELSE /\ UNCHANGED error
            /\ answers' = [i \in 1..Len(res.clarification_questions) |->
                              AnswerLine(res.clarification_questions[i], ans[i])]
            /\ current_query' = ManagerPrompt(user_msg, answers')
            /\ IF LoopContinues(round_idx)
               THEN /\ round_idx' = round_idx + 1
                    /\ prompt' = current_query'
                    /\ calls' = Append(calls, Call("clarifier", current_query'))
                    /\ UNCHANGED << pc, clarified_query, run_query >>
               ELSE /\ clarified_query' = Fallback(user_msg, current_query')
                    /\ CallPlanner(clarified_query')
                    /\ UNCHANGED << round_idx, prompt >>
    /\ UNCHANGED << entry, assistant_vars, conv_vars, phase0, user_msg, assistant_messages,
                    search_vars, report, ui_vars >>

\* manager.py 74: the clarifier call raises and ends the program
CliClarifierFail ==
    /\ entry = "cli"
    /\ pc = "clarify_round"
    /\ error' = Errors.clarifier
    /\ pc' = "raised"
    /\ UNCHANGED << entry, assistant_vars, conv_vars, phase0, user_msg, prompt, clarified_query,
                    assistant_messages, calls, outputs, clarify_vars, search_vars,
                    run_query, report, ui_vars >>

-----------------------------------------------------------------------------
(* clarify_with_feedback.py: clarify_query_interactively *)

\* lines 20-34: the query is read and the first clarifier call is made
InteractiveStart(q) ==
    /\ entry = "interactive"
    /\ pc = "idle"
    /\ user_msg' = q
    /\ answers' = << >>
    /\ prompt' = BuildPrompt(q, << >>)
    /\ calls' = << Call("clarifier", prompt') >>
    /\ pc' = "interactive_round"
    /\ UNCHANGED << entry, assistant_vars, conv_vars, phase0, clarified_query, assistant_messages,
                    error, outputs, round_idx, current_query, search_vars, run_query,
                    report, ui_vars >>

\* lines 35-61: the clarifier call returns out; when it asks, the user types
\* ans[i] for question i and the loop calls the clarifier again
InteractiveReturn(out, ans) ==
    /\ entry = "interactive"
    /\ pc = "interactive_round"
    /\ IF ~IsClarificationResult(out)
       THEN /\ clarified_query' = user_msg
            /\ pc' = "done"
            /\ UNCHANGED << answers, prompt, calls, outputs >>
       ELSE /\ outputs' = Append(outputs, out)
            /\ IF InteractiveAsks(out)
               THEN /\ answers' = answers \o ans
                    /\ prompt' = BuildPrompt(user_msg, answers')
                    /\ calls' = Append(calls, Call("clarifier", prompt'))
                    /\ UNCHANGED << pc, clarified_query >>
               ELSE /\ clarified_query' = Clarified(out, user_msg)
                    /\ pc' = "done"
                    /\ UNCHANGED << answers, prompt, calls >>
    /\ UNCHANGED << entry, assistant_vars, conv_vars, phase0, user_msg, assistant_messages, error,
                    round_idx, current_query, search_vars, run_query, report, ui_vars >>

\* lines 30-34: the clarifier call raises and ends the program
InteractiveFail ==
    /\ entry = "interactive"
    /\ pc = "interactive_round"
    /\ error' = Errors.clarifier
    /\ pc' = "raised"
    /\ UNCHANGED << entry, assistant_vars, conv_vars, phase0, user_msg, prompt, clarified_query,
                    assistant_messages, calls, outputs, clarify_vars, search_vars,
                    run_query, report, ui_vars >>

-----------------------------------------------------------------------------
AnswersTo(res) == [1..Len(res.clarification_questions) -> UserAnswers]

Next ==
    \/ \E m \in UserMsgs : UserTurns < MaxTurns /\ HandleUserInput(m)
    \/ \E res \in ClarResults : ClarifierReturn(res)
    \/ ClarifierFail
    \/ ProcessReply
    \/ ProcessError
    \/ \E q \in CliQueries : CliStart(q)
    \/ \E res \in ClarResults : \E ans \in AnswersTo(res) : CliClarifierReturn(res, ans)
    \/ CliClarifierFail
    \/ \E q \in CliQueries : InteractiveStart(q)
    \/ \E out \in ClarResults \cup {NotAClarificationResult} :
          \E ans \in AnswersTo(out) :
             (InteractiveAsks(out) => Len(outputs) < MaxAsk) /\ InteractiveReturn(out, ans)
    \/ InteractiveFail
    \/ \E plan \in Plans : PlannerReturn(plan)
    \/ PlannerFail
    \/ \E i \in 1..Len(tasks) : \E raised \in BOOLEAN : SearchComplete(i, raised)
    \/ PerformSearchesReturn
    \/ \E rep \in Reports : WriterReturn(rep)
    \/ WriterFail

Spec == Init /\ [][Next]_vars

-----------------------------------------------------------------------------
(* A long UI session: one query text, a clarifier that never asks, a planner  *)
(* that plans one search, and a writer whose follow-up question may contain  *)
(* the text "Research Complete".  With the reports of Reports alone the last *)
(* chat message never contains that text and the follow-up buttons are never *)
(* drawn, so FollowupClick is enabled in this session only.                  *)

SessionQuery == <<"u1">>
SessionClarRes == ClarRes(FALSE, <<"cq">>, << >>)
SessionPlan == << Item(1) >>
SessionReports ==
    Reports \cup { [short_summary |-> <<"sumC">>, markdown_report |-> <<"# C">>,
                    follow_up_questions |-> << <<"Is the Research Complete?">> >>] }

SessionInit == entry = "ui" /\ Fresh

SessionNext ==
    \/ UserTurns < MaxCycles /\ HandleUserInput(SessionQuery)
    \/ ClarifierReturn(SessionClarRes)
    \/ PlannerReturn(SessionPlan)
    \/ \E raised \in BOOLEAN : SearchComplete(1, raised)
    \/ PerformSearchesReturn
    \/ \E rep \in SessionReports : WriterReturn(rep)
    \/ ProcessReply
    \/ \E i \in 1..Len(current_followups) : UserTurns < MaxCycles /\ FollowupClick(i)

SessionSpec == SessionInit /\ [][SessionNext]_vars

-----------------------------------------------------------------------------
(* The three clarifiers with an agent whose output may be something other   *)
(* than a ClarificationResult and that may ask in every round               *)

ShapeOutputs == {NotAClarificationResult, ClarRes(TRUE, None, <<Q1>>), SessionClarRes}

ShapeNext ==
    \/ \E m \in UserMsgs : UserTurns < MaxTurns /\ HandleUserInput(m)
    \/ \E out \in ShapeOutputs : ClarifierReturn(out)
    \/ ProcessReply
    \/ ProcessError
    \/ \E q \in CliQueries : CliStart(q)
    \/ \E out \in ShapeOutputs : \E ans \in AnswersTo(out) : CliClarifierReturn(out, ans)
    \/ \E q \in CliQueries : InteractiveStart(q)
    \/ \E out \in ShapeOutputs :
          \E ans \in AnswersTo(out) :
             (InteractiveAsks(out) => Len(outputs) < MaxRounds) /\ InteractiveReturn(out, ans)

ShapeSpec == Init /\ [][ShapeNext]_vars

-----------------------------------------------------------------------------
(* The real-estate assistant: RealState_Assistant/src/ui/utils.py under       *)
(* streamlit_app.py.  Every run of the script configures the client from the *)
(* sidebar and then handles at most one chat prompt.  A chat message is kept *)
(* with its role, content and steps (its emoji is left out).                 *)

Prompts == {<<"p1">>}
ApiKeys == {<< >>, <<"key">>}
DecisionAgent == <<"Real Estate Decision Agent">>   \* agent.py 44-45
KbAgent == <<"Knowledge Base Agent">>               \* agent.py 23-24
AgentNames == {DecisionAgent, KbAgent}
FinalOutputs == {<<"answer">>}

\* the events of a stream: agent updates, text deltas and anything else
StreamEvents ==
    { [type |-> "agent_updated_stream_event", new_agent |-> a] : a \in AgentNames }
    \cup { [type |-> "raw_response_event", is_text_delta |-> TRUE, delta |-> <<"tok">>],
           [type |-> "run_item_stream_event"] }

\* the HandoffOutputItems among the new items of a finished run
HandoffLists == { << >>, << [source_agent |-> DecisionAgent, target_agent |-> KbAgent] >> }

\* utils.py 405
CannedReply ==
    [response |-> <<"No API key provided, so here's a default joke: Why did the coffee file a police report? It got mugged.">>,
     steps |-> << >>]

\* utils.py 291, 301
Handover(from, to) == <<"Handover **">> \o from \o <<"** -> **">> \o to \o <<"**">>

\* utils.py 265-274
ConversationHistory(msgs) ==
    [i \in 1..Len(msgs) |-> [role |-> msgs[i].role, content |-> msgs[i].content]]

\* utils.py 296-302
ProcessHandoffs(items) ==
    [i \in 1..Len(items) |-> Handover(items[i].source_agent, items[i].target_agent)]

\* utils.py 416-423
AssistantMessage(response) ==
    [role |-> "assistant", content |-> response.response, steps |-> response.steps]

\* SkipsAgent with the test for the key made in the streaming branch only
SkipsAgentWhenStreaming(missing, streaming) == missing /\ streaming

\* utils.py 404: get_response returns the canned reply
SkipsAgent(missing, streaming) == missing

\* utils.py 78-145, 190-247: a run of the script without a prompt, after the
\* user has changed the key field or the streaming toggle
ConfigureSidebar(key, streaming) ==
    /\ entry = "assistant"
    /\ pc = "idle"
    /\ api_key_missing' = ~Truthy(key)
    /\ use_streaming' = streaming
    /\ (api_key_missing' # api_key_missing \/ use_streaming' # use_streaming)
    /\ UNCHANGED << entry, conv_vars, pc, phase0, user_msg, prompt, clarified_query,
                    assistant_messages, error, calls, outputs, clarify_vars, search_vars,
                    run_query, report, ui_vars, full_response, steps, current_agent,
                    stream_pos >>

\* utils.py 364-414: the user sends prompt p; the message is saved and
\* get_response answers with the canned reply or calls the runner
ChatInteraction(p) ==
    /\ entry = "assistant"
    /\ pc = "idle"
    /\ user_msg' = p
    /\ error' = None
    /\ full_response' = << >>
    /\ steps' = << >>
    /\ stream_pos' = 0
    /\ outputs' = << >>
    /\ LET saved == Append(messages, [role |-> "user", content |-> p])
       IN  IF SkipsAgent(api_key_missing, use_streaming)
           THEN /\ messages' = Append(saved, AssistantMessage(CannedReply))
                /\ calls' = << >>
                /\ UNCHANGED << pc, current_agent >>
           ELSE /\ messages' = saved
                /\ IF use_streaming
                   THEN /\ calls' = << Call("run_streamed", ConversationHistory(saved)) >>
                        /\ current_agent' = DecisionAgent
                        /\ pc' = "stream"
                   ELSE /\ calls' = << Call("run", ConversationHistory(saved)) >>
                        /\ pc' = "agent_run"
                        /\ UNCHANGED current_agent
    /\ UNCHANGED << entry, conv_vars, phase0, prompt, clarified_query,
                    assistant_messages, clarify_vars, search_vars, run_query,
                    report, processing, current_followups, current_report,
                    api_key_missing, use_streaming >>

\* the generator yields nothing for an event
NoChunk == [nothing |-> TRUE]

\* Chunk for a generator that reports every agent update as a hand-over
ChunkOnEveryUpdate(ev, cur) ==
    CASE ev.type = "agent_updated_stream_event" -> [step |-> Handover(cur, ev.new_agent)]
      [] ev.type = "raw_response_event" /\ ev.is_text_delta -> [delta |-> ev.delta]
      [] OTHER -> NoChunk

\* utils.py 287-294: what generate_response_stream yields for event ev while
\* it tracks agent cur
Chunk(ev, cur) ==
    CASE ev.type = "agent_updated_stream_event" ->
              IF ev.new_agent # cur
              THEN [step |-> Handover(cur, ev.new_agent)]
              ELSE NoChunk
      [] ev.type = "raw_response_event" /\ ev.is_text_delta -> [delta |-> ev.delta]
      [] OTHER -> NoChunk

\* utils.py 285-294, 338-344: the stream hands over its next event, the
\* generator yields its chunk and stream_response consumes it
StreamEvent(ev) ==
    /\ entry = "assistant"
    /\ pc = "stream"
    /\ stream_pos' = stream_pos + 1
    /\ outputs' = << ev >>
    /\ LET chunk == Chunk(ev, current_agent)
       IN  /\ full_response' =
                 IF "delta" \in DOMAIN chunk
                 THEN full_response \o chunk.delta
                 ELSE full_response
           /\ steps' =
                 IF "delta" \notin DOMAIN chunk /\ "step" \in DOMAIN chunk
                 THEN Append(steps, chunk.step)
                 ELSE steps
           /\ current_agent' =
                 IF "step" \in DOMAIN chunk THEN ev.new_agent ELSE current_agent
    /\ UNCHANGED << entry, conv_vars, pc, phase0, user_msg, prompt, clarified_query,
                    assistant_messages, error, calls, clarify_vars, search_vars,
                    run_query, report, ui_vars, api_key_missing, use_streaming >>

\* utils.py 345-349, 378-379: the stream is over and the reply is saved
StreamEnd ==
    /\ entry = "assistant"
    /\ pc = "stream"
    /\ messages' = Append(messages,
                          AssistantMessage([response |-> full_response, steps |-> steps]))
    /\ pc' = "idle"
    /\ UNCHANGED << entry, assistant_vars, conv_vars, phase0, user_msg, prompt,
                    clarified_query, assistant_messages, error, calls, outputs,
                    clarify_vars, search_vars, run_query, report, processing,
                    current_followups, current_report >>

\* utils.py 319-321, 412-414, 378-379: Runner.run returns and the reply is saved
AgentRunReturn(out, items) ==
    /\ entry = "assistant"
    /\ pc = "agent_run"
    /\ steps' = ProcessHandoffs(items)
    /\ full_response' = out
    /\ messages' = Append(messages,
                          AssistantMessage([response |-> out, steps |-> steps']))
    /\ pc' = "idle"
    /\ UNCHANGED << entry, conv_vars, phase0, user_msg, prompt, clarified_query,
                    assistant_messages, error, calls, outputs, clarify_vars, search_vars,
                    run_query, report, processing, current_followups, current_report,
                    api_key_missing, use_streaming, current_agent, stream_pos >>

\* utils.py 285, 319: the runner raises; nothing catches it and the run of the
\* script ends with the user message saved and no reply
AgentRunFail ==
    /\ entry = "assistant"
    /\ pc \in {"agent_run", "stream"}
    /\ error' = <<"runner failed">>
    /\ pc' = "idle"
    /\ UNCHANGED << entry, assistant_vars, conv_vars, phase0, user_msg, prompt,
                    clarified_query, assistant_messages, calls, outputs, clarify_vars,
                    search_vars, run_query, report, ui_vars >>

\* utils.py 61-64: the values of the thumbs widget
FeedbackValues == {0, 1}

\* utils.py 66-67: message m with the feedback the user gave on it
WithFeedback(m, fb) ==
    [k \in DOMAIN m \cup {"feedback"} |-> IF k = "feedback" THEN fb ELSE m[k]]

\* utils.py 49-67: the user clicks a thumb under the assistant message at
\* index i of the chat history
Feedback(i, fb) ==
    /\ entry = "assistant"
    /\ pc = "idle"
    /\ messages[i].role = "assistant"
    /\ messages' = [messages EXCEPT ![i] = WithFeedback(messages[i], fb)]
    /\ UNCHANGED << entry, assistant_vars, conv_vars, pc, phase0, user_msg, prompt,
                    clarified_query, assistant_messages, error, calls, outputs,
                    clarify_vars, search_vars, run_query, report, processing,
                    current_followups, current_report >>

AssistantInit == entry = "assistant" /\ Fresh

AssistantNext ==
    \/ \E key \in ApiKeys : \E streaming \in BOOLEAN : ConfigureSidebar(key, streaming)
    \/ \E p \in Prompts : UserTurns < MaxChat /\ ChatInteraction(p)
    \/ \E ev \in StreamEvents : stream_pos < MaxEvents /\ StreamEvent(ev)
    \/ StreamEnd
    \/ \E out \in FinalOutputs : \E items \in HandoffLists : AgentRunReturn(out, items)
    \/ AgentRunFail

AssistantSpec == AssistantInit /\ [][AssistantNext]_vars

-----------------------------------------------------------------------------
(* One research cycle of the UI session whose report carries follow-up       *)
(* questions of any text: letters and line feeds in any arrangement           *)

\* the texts of length n over a letter and the line feed
RECURSIVE Texts(_)
Texts(n) ==
    IF n = 0 THEN {<< >>}
    ELSE Texts(n - 1) \cup {Append(t, c) : t \in Texts(n - 1), c \in {"f", "\n"}}

Questions == Texts(MaxQuestionLen)

\* the follow-up lists: no question, one question, two questions
FollowupLists ==
    {<< >>} \cup {<< q >> : q \in Questions} \cup {<< q1, q2 >> : q1, q2 \in Questions}

FollowupReports ==
    {[short_summary |-> <<"sumA">>, markdown_report |-> <<"# A">>,
      follow_up_questions |-> qs] : qs \in FollowupLists}

FollowupInit == entry = "ui" /\ Fresh

FollowupNext ==
    \/ messages = << >> /\ HandleUserInput(SessionQuery)
    \/ ClarifierReturn(SessionClarRes)
    \/ PlannerReturn(SessionPlan)
    \/ \E raised \in BOOLEAN : SearchComplete(1, raised)
    \/ PerformSearchesReturn
    \/ \E rep \in FollowupReports : WriterReturn(rep)
    \/ ProcessReply

FollowupSpec == FollowupInit /\ [][FollowupNext]_vars

-----------------------------------------------------------------------------
(* The chat logs of the two Streamlit front-ends: the long UI session with   *)
(* failing turns and follow-up clicks, and the assistant with feedback       *)

LogInit == entry \in {"ui", "assistant"} /\ Fresh

\* the stream events that add to the text of a reply
TextEvents == {ev \in StreamEvents : ev.type = "raw_response_event"}

LogNext ==
    \/ SessionNext
    \/ ClarifierFail
    \/ PlannerFail
    \/ WriterFail
    \/ ProcessError
    \/ \E key \in ApiKeys : \E streaming \in BOOLEAN : ConfigureSidebar(key, streaming)
    \/ \E p \in Prompts : UserTurns < MaxChat /\ ChatInteraction(p)
    \/ \E ev \in TextEvents : stream_pos < MaxEvents /\ StreamEvent(ev)
    \/ StreamEnd
    \/ \E out \in FinalOutputs : \E items \in HandoffLists : AgentRunReturn(out, items)
    \/ AgentRunFail
    \/ \E i \in 1..Len(messages) : \E fb \in FeedbackValues : Feedback(i, fb)

LogSpec == LogInit /\ [][LogNext]_vars

-----------------------------------------------------------------------------
(* Properties *)

IsClarifierCall(c) == c.agent = "clarifier"
IsSearchCall(c) == c.agent = "search"
ClarifierCalls == SelectSeq(calls, IsClarifierCall)
SearchCalls == SelectSeq(calls, IsSearchCall)
AgentsCalled == [i \in 1..Len(calls) |-> calls[i].agent]

IsQuestionToken(t) == t \in {Q1.question[1], Q2.question[1]}

\* the last chat message reports a planner or writer failure
LastTurnFailedInPipeline ==
    /\ messages # << >>
    /\ messages[Len(messages)].content \in
          { <<"Sorry, I encountered an error: ">> \o Errors.planner,
            <<"Sorry, I encountered an error: ">> \o Errors.writer }

\* a step in which the UI hands a user message to handle_user_message
TurnBegins == entry = "ui" /\ pc = "idle" /\ pc' # "idle"

\* C1: a message handled while phase = "research" is answered with exactly the
\* wait message, leaves phase, initial_query, clar_res, context_summaries and
\* last_report as they were and calls no agent.
C1_WaitWhileResearch ==
    [][(TurnBegins /\ phase = "research")
          => /\ pc' = "returned"
             /\ assistant_messages' = << WaitMessage >>
             /\ UNCHANGED conv_vars
             /\ calls' = << >>]_vars

C1_Witness ==
    /\ entry = "ui"
    /\ pc = "returned"
    /\ phase0 = "research"
    /\ assistant_messages = << WaitMessage >>

\* C2: after a turn in which the planner or the writer failed, the next user
\* message is handled as a fresh query: the clarifier is called on it.
C2_FreshQueryAfterFailure ==
    [][(TurnBegins /\ LastTurnFailedInPipeline)
          => /\ pc' = "clarifier"
             /\ initial_query' = user_msg'
             /\ calls' = << Call("clarifier", user_msg') >>]_vars

\* C3: in phase waiting_query, when the clarifier asks, the turn returns one
\* assistant message holding every question in the order returned, keeps the
\* result as pending, moves to phase clarify and has called the clarifier only.
C3_ClarificationAsked ==
    (/\ entry = "ui"
     /\ pc = "returned"
     /\ phase0 = "waiting_query"
     /\ Len(outputs) = 1
     /\ outputs[1].needs_clarification)
    => /\ Len(assistant_messages) = 1
       /\ assistant_messages[1].role = "assistant"
       /\ SelectSeq(assistant_messages[1].content, IsQuestionToken)
             = Join(<< >>, [i \in 1..Len(outputs[1].clarification_questions) |->
                               outputs[1].clarification_questions[i].question])
       /\ clar_res = outputs[1]
       /\ phase = "clarify"
       /\ calls = << Call("clarifier", user_msg) >>

C3_Witness ==
    /\ entry = "ui"
    /\ pc = "returned"
    /\ phase0 = "waiting_query"
    /\ Len(outputs) = 1
    /\ outputs[1].needs_clarification
    /\ Len(outputs[1].clarification_questions) = 2

\* C4: in phase waiting_query, when the clarifier does not ask, the turn that
\* returns has called the planner, then every search, then the writer, returns
\* the messages of the report, has stored it as last_report and is back in
\* phase waiting_query.
C4_ResearchInSameTurn ==
    (/\ entry = "ui"
     /\ pc = "returned"
     /\ phase0 = "waiting_query"
     /\ Len(outputs) = 1
     /\ ~outputs[1].needs_clarification)
    => /\ AgentsCalled = <<"clarifier", "planner">>
                         \o [i \in 1..Len(search_plan) |-> "search"] \o <<"writer">>
       /\ report \in Reports
       /\ last_report = report
       /\ Len(assistant_messages) = 2
       /\ assistant_messages = ReportToMessages(report)
       /\ phase = "waiting_query"

C4_Witness ==
    /\ entry = "ui"
    /\ pc = "returned"
    /\ phase0 = "waiting_query"
    /\ Len(outputs) = 1
    /\ ~outputs[1].needs_clarification
    /\ Len(search_plan) = 2
    /\ last_report \in Reports

\* C5: a turn begun in phase clarify calls the clarifier once, on the stored
\* query plus the answer text, and whatever that call returns the planner is
\* called and the turn ends in phase waiting_query.
C5_ClarifyIsOneShot ==
    (/\ entry = "ui"
     /\ phase0 = "clarify"
     /\ pc \in {"returned", "raised"}
     /\ Len(outputs) = 1)
    => /\ ClarifierCalls = << Call("clarifier", CombinedPrompt(initial_query, user_msg)) >>
       /\ Len(calls) >= 2
       /\ calls[2].agent = "planner"
       /\ phase = "waiting_query"

-----------------------------------------------------------------------------
AllAsk == \A i \in 1..Len(outputs) : outputs[i].needs_clarification

\* _clarify_query of main.py's run has returned
ClarifyQueryReturned ==
    /\ entry = "cli"
    /\ pc \in {"plan", "search", "write", "done", "raised"}
    /\ error # Errors.clarifier

\* C6: _clarify_query never calls the clarifier a 4th time, and when every
\* call asks for clarification it returns a string after exactly 3 calls.
C6_ThreeRounds ==
    entry = "cli"
    => /\ Len(ClarifierCalls) <= 3
       /\ pc = "clarify_round" => Len(ClarifierCalls) = Len(outputs) + 1
       /\ (ClarifyQueryReturned /\ AllAsk)
             => /\ Len(ClarifierCalls) = 3
                /\ Len(outputs) = 3
                /\ clarified_query # None
                /\ run_query = clarified_query

C6_Witness ==
    /\ ClarifyQueryReturned
    /\ pc = "plan"
    /\ AllAsk
    /\ Len(outputs) = 3

\* C7: when the rounds are used up, _clarify_query returns the last prompt it
\* assembled: the original query and the questions and answers of the last
\* round, and that is what the planner is called with.
C7_FallbackIsLastPrompt ==
    (ClarifyQueryReturned /\ AllAsk)
    => LET last == outputs[Len(outputs)].clarification_questions IN
       /\ Len(answers) = Len(last)
       /\ \A i \in 1..Len(last) :
             /\ SubSeq(answers[i], 1, 3) = <<"Q: ">> \o last[i].question \o <<"\nA: ">>
             /\ SubSeq(answers[i], 4, Len(answers[i])) \in UserAnswers
       /\ current_query = <<"Original query: ">> \o user_msg
                          \o <<"\n\nUser clarifications:\n">> \o Join(<<"\n">>, answers)
       /\ clarified_query = current_query
       /\ \E i \in 1..Len(calls) : calls[i] = Call("planner", <<"Query: ">> \o current_query)

C7_Witness ==
    /\ ClarifyQueryReturned
    /\ AllAsk
    /\ pc = "done"
    /\ Len(answers) = 2
    /\ \E i \in 1..2 : SubSeq(answers[i], 4, Len(answers[i])) # << >>
    /\ user_msg # << >>

-----------------------------------------------------------------------------
\* the turn has fixed its clarified query after a clarifier result that does
\* not ask for clarification
ResolvedWithoutAsking ==
    /\ clarified_query # None
    /\ outputs # << >>
    /\ ~outputs[Len(outputs)].needs_clarification
    /\ pc \in {"plan", "search", "write", "done"}

OriginalQuery == IF entry = "ui" THEN initial_query ELSE user_msg

-----------------------------------------------------------------------------
Failures == {i \in 1..Len(tasks) : tasks[i].raised}
Successes == {i \in 1..Len(tasks) : tasks[i].state = "done" /\ ~tasks[i].raised}

\* _perform_searches has returned
SearchesReturned == pc \in {"write", "returned", "done"} \/ (pc = "raised" /\ error = Errors.writer)

\* C9: once the planner has returned, the search agent has been called once
\* for each planned item, in plan order, and for nothing else, however many
\* searches fail; no further search call is made up to the end of the run.
C9_OneSearchPerItem ==
    /\ Len(SearchCalls) = Len(search_plan)
    /\ \A i \in 1..Len(search_plan) :
          /\ SearchCalls[i].input = <<"Search term: ">> \o search_plan[i].query
                                    \o <<"\nReason for searching: ">> \o search_plan[i].reason
          /\ i \in 1..Len(tasks) /\ tasks[i].item = search_plan[i]
    /\ Len(tasks) = Len(search_plan)

C9_Witness ==
    /\ pc = "write"
    /\ Len(search_plan) = 2
    /\ Failures = {1}
    /\ Len(SearchCalls) = 2

\* C10: a failing search never aborts the batch: while the stage runs, every
\* task not yet counted is still running, and once _perform_searches has
\* returned, its result holds exactly one summary per search that did not
\* raise, M - F elements for M items with F failures.
C10_FailuresAreDropped ==
    /\ pc = "search" =>
          /\ num_completed = Cardinality({i \in 1..Len(tasks) : tasks[i].state = "done"})
          /\ Len(results) = Cardinality(Successes)
          /\ error = None
    /\ (SearchesReturned /\ entry \in {"ui", "cli"}) =>
          /\ num_completed = Len(search_plan)
          /\ Len(results) = Len(search_plan) - Cardinality(Failures)
          /\ \A i \in 1..Len(tasks) :
                (~tasks[i].raised) <=>
                   (\E k \in 1..Len(results) : results[k] = <<"summary of ">> \o tasks[i].item.query)
          /\ \A k \in 1..Len(results) :
                \E i \in Successes : results[k] = <<"summary of ">> \o tasks[i].item.query

C10_Witness ==
    /\ pc = "write"
    /\ Len(search_plan) = 2
    /\ Cardinality(Failures) = 1
    /\ Len(results) = 1

-----------------------------------------------------------------------------
IsCounterReport(c) == c.op = "update_item" /\ c.text # <<"Searching...">>
CounterReports == SelectSeq(progress, IsCounterReport)
CounterText(n, m) == <<"Searching... ", Str(n), "/", Str(m), " completed">>
DoneTasks == {i \in 1..Len(tasks) : tasks[i].state = "done"}
IsWriterCall(c) == c.agent = "writer"
IsPlannerCall(c) == c.agent = "planner"
WriterCalls == SelectSeq(calls, IsWriterCall)
PlannerCalls == SelectSeq(calls, IsPlannerCall)

NothingFound ==
    /\ entry \in {"ui", "cli"}
    /\ progress # << >>
    /\ \A i \in 1..Len(tasks) : tasks[i].state = "done" /\ tasks[i].raised

\* C12: when every planned search has failed, or the plan is empty, the search
\* stage ends without an error and with an empty result; the next step of the
\* run is the writer call, made once on the empty list; and the run that
\* returns returns the writer's ReportData.
C12_WriterRunsOnEmptyResults ==
    /\ [](NothingFound =>
             /\ results = << >>
             /\ pc = "search" => error = None
             /\ pc # "search" =>
                   /\ Len(WriterCalls) = 1
                   /\ calls[Len(calls)] =
                         Call("writer", <<"Original query: ">> \o run_query
                                        \o <<"\nSummarized search results: ", "[", "]">>)
             /\ pc \in {"returned", "done"} => report \in Reports)
    /\ [][(NothingFound /\ pc = "search") => pc' = "write"]_vars

C12_Witness ==
    /\ entry = "cli"
    /\ pc = "done"
    /\ Len(search_plan) = 2
    /\ \A i \in 1..2 : tasks[i].raised
    /\ results = << >>
    /\ report \in Reports

StageRank(c) ==
    CASE c.agent = "clarifier" -> 1
      [] c.agent = "planner" -> 2
      [] c.agent = "search" -> 3
      [] c.agent = "writer" -> 4

\* C13: the agent calls of a run are made in the order clarifier, planner,
\* search, writer; the planner is called once, after every clarifier call has
\* returned; the searches are dispatched once the planner has returned, one
\* per item of its plan; and the writer is called once, when every dispatched
\* search has completed or failed.
C13_StagesInOrder ==
    /\ \A i, j \in 1..Len(calls) : i < j => StageRank(calls[i]) <= StageRank(calls[j])
    /\ Len(PlannerCalls) <= 1
    /\ Len(WriterCalls) <= 1
    /\ PlannerCalls # << >> => Len(outputs) = Len(ClarifierCalls)
    /\ (PlannerCalls = << >> \/ pc = "plan") => (SearchCalls = << >> /\ tasks = << >>)
    /\ SearchCalls # << >> => Len(SearchCalls) = Len(search_plan)
    /\ WriterCalls # << >> =>
          /\ Len(tasks) = Len(search_plan)
          /\ \A i \in 1..Len(tasks) : tasks[i].state = "done"

C13_Witness ==
    /\ entry = "cli"
    /\ pc = "write"
    /\ Len(ClarifierCalls) = 2
    /\ Len(search_plan) = 2
    /\ Failures = {2}
    /\ AgentsCalled = <<"clarifier", "clarifier", "planner", "search", "search", "writer">>

ErrorText(e) == <<"Sorry, I encountered an error: ">> \o e

\* C14: a planner or writer failure leaves handle_user_message at once (no
\* agent is called after it, nothing is added to the reply or the chat log on
\* the way), and the UI then appends one assistant message, the error message,
\* to the chat log, right after the user message of the turn; no follow-ups
\* and no current report are set.
C14_OneErrorMessage ==
    /\ [][(entry = "ui" /\ pc \in {"plan", "write"} /\ error' # error) =>
             /\ pc' = "raised"
             /\ error' \in {Errors.planner, Errors.writer}
             /\ UNCHANGED << calls, assistant_messages, messages >>]_vars
    /\ [][(entry = "ui" /\ pc = "raised" /\ error \in {Errors.planner, Errors.writer}
           /\ pc' # pc) =>
             /\ messages[Len(messages)] = [role |-> "user", content |-> user_msg]
             /\ messages' = Append(messages, [role |-> "assistant",
                                              content |-> ErrorText(error)])
             /\ assistant_messages = << >>
             /\ current_followups' = << >>
             /\ current_report' = NoObject]_vars

C14_Witness ==
    /\ entry = "ui"
    /\ pc = "idle"
    /\ Len(messages) = 2
    /\ messages[1].role = "user"
    /\ messages[2] = [role |-> "assistant", content |-> ErrorText(Errors.writer)]

SummaryMarker == "### Research Complete\n\n**Summary:** "
IsSummaryMessage(m) == m.role = "assistant" /\ m.content # << >> /\ m.content[1] = SummaryMarker
SummaryMessages == SelectSeq(messages, IsSummaryMessage)

\* the short summaries of the cycles completed in earlier turns, oldest first
CompletedSummaries == [i \in 1..Len(SummaryMessages) |-> Tail(SummaryMessages[i].content)]

IsSummaryToken(t) == t \in {rep.short_summary[1] : rep \in SessionReports}

\* C15: the query a research cycle of the UI session runs on is the clarified
\* query itself when no cycle has completed before, and otherwise the
\* clarified query after a prefix that lists the last min(3, n) of the n
\* summaries of the completed cycles, oldest first, and no other summary.
C15_EffectiveQuery ==
    (entry = "ui" /\ PlannerCalls # << >>) =>
        LET S == CompletedSummaries
            n == Len(S)
            k == IF n < 3 THEN n ELSE 3
        IN  /\ PlannerCalls[1].input = <<"Query: ">> \o run_query
            /\ n = 0 => run_query = clarified_query
            /\ n > 0 =>
                  run_query = <<"Previous context:\n">>
                              \o Join(<<"\n---\n">>, [i \in 1..k |-> S[n - k + i]])
                              \o <<"\n\nCurrent query: ">> \o clarified_query
            /\ Len(SelectSeq(run_query, IsSummaryToken)) = k

C15_Witness ==
    /\ entry = "ui"
    /\ pc = "plan"
    /\ Len(CompletedSummaries) = 4
    /\ CompletedSummaries[1] = <<"sumA">>
    /\ \A i \in 2..4 : CompletedSummaries[i] # <<"sumA">>
    /\ \A i \in 1..Len(run_query) : run_query[i] # "sumA"

\* C16: context_summaries never holds more than 3 summaries.
C16_SummariesBounded == Len(context_summaries) <= 3

\* C17: the turn that completes a research cycle adds exactly two messages to
\* the chat log, both from the assistant: first the summary message, then the
\* message whose content is the follow-up questions joined by blank lines (the
\* empty text when there are none); so the log of an idle session holds one
\* summary message per completed cycle, each followed by an assistant message.
C17_TwoMessagesPerCycle ==
    /\ [][(entry = "ui" /\ pc = "returned" /\ report # NoObject /\ pc' = "idle") =>
             LET n == Len(messages)
             IN  /\ Len(messages') = n + 2
                 /\ SubSeq(messages', 1, n) = messages
                 /\ messages'[n + 1].role = "assistant"
                 /\ messages'[n + 1].content = << SummaryMarker >> \o report.short_summary
                 /\ messages'[n + 2].role = "assistant"
                 /\ messages'[n + 2].content =
                       Join(<<"\n\n">>, report.follow_up_questions)]_vars
    /\ []((entry = "ui" /\ pc = "idle") =>
             /\ Len(SummaryMessages) = Len(context_summaries)
             /\ \A i \in 1..Len(messages) :
                   IsSummaryMessage(messages[i]) =>
                      /\ i < Len(messages)
                      /\ messages[i + 1].role = "assistant"
                      /\ ~IsSummaryMessage(messages[i + 1]))

C17_Witness ==
    /\ entry = "ui"
    /\ pc = "idle"
    /\ Len(messages) = 6
    /\ messages[2].content = << SummaryMarker, "sumB" >>
    /\ messages[3].content = << >>
    /\ messages[5].content = << SummaryMarker, "sumA" >>
    /\ messages[6].content = <<"f1", "\n\n", "f2">>

\* a call of handle_user_message has not returned yet
InFlight == entry = "ui" /\ pc \in {"clarifier", "plan", "search", "write"}

\* C18: while a call of handle_user_message has not returned, no user message
\* is accepted and no other call is started: the chat log, the message being
\* handled and the phase it found stay as they are, and the turn never has
\* more than one clarifier call or more than one planner call.
C18_OneRunInFlight ==
    /\ [][InFlight => /\ messages' = messages
                      /\ user_msg' = user_msg
                      /\ phase0' = phase0
                      /\ Len(ClarifierCalls') = 1]_vars
    /\ [](entry = "ui" => Len(ClarifierCalls) <= 1 /\ Len(PlannerCalls) <= 1)

C18_Witness ==
    /\ InFlight
    /\ pc = "clarifier"
    /\ phase = "clarify"
    /\ processing
    /\ UserTurns < MaxTurns

\* C20: the step in which a follow-up button is pressed (the chat log gains a
\* user message whose text is one of the follow-ups on display) hands that
\* text to handle_user_message.
C20_ClickIsRelayed ==
    [][(/\ entry = "ui"
        /\ Len(messages') = Len(messages) + 1
        /\ messages'[Len(messages')].role = "user"
        /\ \E i \in 1..Len(current_followups) :
              current_followups[i] = messages'[Len(messages')].content)
          => /\ user_msg' = messages'[Len(messages')].content
             /\ pc' \in {"clarifier", "returned"}]_vars

\* C19: in the real-estate assistant, a prompt sent while api_key_missing is
\* true is answered in the same step with the canned reply and an empty step
\* list, without a runner call, whatever the streaming toggle says; so no
\* runner call is ever in flight while the key is missing.
C19_CannedReplyWithoutKey ==
    /\ [][(entry = "assistant" /\ api_key_missing /\ UserTurns' = UserTurns + 1) =>
             /\ Len(messages') = Len(messages) + 2
             /\ messages'[Len(messages') - 1] = [role |-> "user", content |-> user_msg']
             /\ messages'[Len(messages')] =
                   [role |-> "assistant",
                    content |-> <<"No API key provided, so here's a default joke: Why did the coffee file a police report? It got mugged.">>,
                    steps |-> << >>]
             /\ calls' = << >>
             /\ pc' = "idle"]_vars
    /\ []((entry = "assistant" /\ api_key_missing) => pc = "idle")

C19_Witness ==
    /\ entry = "assistant"
    /\ api_key_missing
    /\ ~use_streaming
    /\ calls = << >>
    /\ Len(messages) = 4
    /\ messages[2].steps # << >>
    /\ messages[4].content = CannedReply.response
    /\ messages[4].steps = << >>

\* C21: after the clarifying agent has returned something that is not a
\* ClarificationResult, no error has been raised: the clarifier stage goes on.
C21_UnexpectedOutputNotFatal ==
    (outputs # << >> /\ ~IsClarificationResult(outputs[Len(outputs)]))
        => (pc # "raised" /\ error = None)

\* C22: clarify_query_interactively calls the clarifier at most 3 times.
C22_AtMostThreeRounds == entry = "interactive" => Len(ClarifierCalls) <= 3

Occurs(t, text) == \E k \in 1..Len(text) : text[k] = t

\* C23: in _clarify_query and in clarify_query_interactively, an answer the
\* user gave (the text "a1") that is in the prompt of one clarifier round is
\* in the prompt of every later round too.
C23_PromptsAccumulate ==
    entry \in {"cli", "interactive"} =>
        \A i, j \in 1..Len(ClarifierCalls) :
            (i < j /\ Occurs("a1", ClarifierCalls[i].input))
                => Occurs("a1", ClarifierCalls[j].input)

\* the session is idle and the chat log ends with the two messages of a
\* research cycle
CycleJustCompleted ==
    /\ entry = "ui"
    /\ pc = "idle"
    /\ Len(messages) >= 2
    /\ IsSummaryMessage(messages[Len(messages) - 1])
    /\ messages[Len(messages)].role = "assistant"

\* C24: when a research cycle has just completed with a report that has
\* follow-up questions, the follow-up buttons are drawn.
C24_FollowupsOffered ==
    (CycleJustCompleted /\ last_report.follow_up_questions # << >>) => FollowupsDisplayed

\* C25: in the chat log of ui/app.py the full-report panel of every summary
\* message shows the markdown of the report whose short summary the message
\* carries, whatever the latest report of the session is.
C25_PanelShowsOwnReport ==
    entry = "ui" =>
        \A i \in 1..Len(messages) :
            IsSummaryMessage(messages[i]) =>
                \E rep \in SessionReports :
                    /\ rep.short_summary = Tail(messages[i].content)
                    /\ Panel(messages[i], last_report) = rep.markdown_report

C25_Witness ==
    /\ entry = "ui"
    /\ pc = "idle"
    /\ Len(messages) = 6
    /\ messages[2].content = << SummaryMarker, "sumA" >>
    /\ messages[5].content = << SummaryMarker, "sumC" >>
    /\ last_report.markdown_report = <<"# C">>
    /\ Panel(messages[2], last_report) = <<"# A">>

\* C26: the chat logs of ui/app.py and of the assistant are append-only: no
\* step makes the log shorter or changes the role or the content of a message
\* that is already in it.
C26_ChatLogAppendOnly ==
    [][/\ Len(messages') >= Len(messages)
       /\ \A i \in 1..Len(messages) :
             /\ messages'[i].role = messages[i].role
             /\ messages'[i].content = messages[i].content]_vars

\* a completed cycle, a click on its follow-up button, and then a failed turn
C26_Witness ==
    /\ entry = "ui"
    /\ pc = "idle"
    /\ Len(messages) = 6
    /\ IsSummaryMessage(messages[2])
    /\ messages[3].content = <<"Is the Research Complete?">>
    /\ messages[4] = [role |-> "user", content |-> <<"Is the Research Complete?">>]
    /\ messages[5].role = "user"
    /\ messages[6].content = ErrorText(Errors.planner)

C26_FeedbackGiven ==
    /\ entry = "assistant"
    /\ Len(messages) = 4
    /\ "feedback" \in DOMAIN messages[2]

\* the agent a hand-over step names as its source, and as its target
StepSource(step) == << step[2] >>
StepTarget(step) == << step[4] >>

\* C27: while a reply is streamed, an event adds a hand-over step or a text
\* delta, never both; it adds a step exactly when it is an agent update that
\* names an agent other than the tracked one, the step names the tracked
\* agent as source and the new agent as target, and the new agent is tracked
\* from then on; so the steps form a chain from the starting agent to the
\* tracked one.
C27_HandoverSteps ==
    /\ [][(pc = "stream" /\ stream_pos' = stream_pos + 1) =>
             LET ev == outputs'[1]
                 handed == /\ ev.type = "agent_updated_stream_event"
                           /\ ev.new_agent # current_agent
             IN  /\ ~(steps' # steps /\ full_response' # full_response)
                 /\ (steps' # steps) <=> handed
                 /\ handed =>
                       /\ steps' = Append(steps, <<"Handover **">> \o current_agent
                                                 \o <<"** -> **">> \o ev.new_agent
                                                 \o <<"**">>)
                       /\ current_agent' = ev.new_agent
                       /\ full_response' = full_response
                 /\ ~handed => current_agent' = current_agent]_vars
    /\ []((pc = "stream" /\ steps # << >>) =>
             /\ StepSource(steps[1]) = <<"Real Estate Decision Agent">>
             /\ \A i \in 1..(Len(steps) - 1) :
                   StepTarget(steps[i]) = StepSource(steps[i + 1])
             /\ StepTarget(steps[Len(steps)]) = current_agent)

\* the stream handed over to the knowledge base agent and back, and the last
\* event was an update that names the tracked agent again
C27_Witness ==
    /\ pc = "stream"
    /\ Len(steps) = 1
    /\ StepTarget(steps[1]) = <<"Knowledge Base Agent">>
    /\ outputs = << [type |-> "agent_updated_stream_event",
                     new_agent |-> <<"Knowledge Base Agent">>] >>
    /\ stream_pos = 2

\* C28: whenever handle_user_message has returned normally the phase is
\* waiting_query or clarify, and whenever the phase is clarify the stored
\* clarifier result asks for clarification and initial_query is the message
\* that caused it.
C28_PhaseAfterReturn ==
    /\ (entry = "ui" /\ pc = "returned") => phase \in {"waiting_query", "clarify"}
    /\ (entry = "ui" /\ phase = "clarify") =>
          /\ clar_res # NoObject
          /\ clar_res.needs_clarification

\* C29: last_report and context_summaries change only in the step that
\* completes a research cycle; that step appends one entry to
\* context_summaries, the short summary of the cycle's report, which becomes
\* last_report; every other step (clarification, wait and failing turns
\* included) leaves both alone; and last_report is unset exactly when
\* context_summaries is empty.
C29_SavedOnCompletionOnly ==
    /\ [][(context_summaries' # context_summaries \/ last_report' # last_report)
             => (entry = "ui" /\ pc = "write" /\ pc' = "returned")]_vars
    /\ [][(entry = "ui" /\ pc = "write" /\ pc' = "returned") =>
             /\ report' # NoObject
             /\ last_report' = report'
             /\ Len(context_summaries') = Len(context_summaries) + 1
             /\ SubSeq(context_summaries', 1, Len(context_summaries)) = context_summaries
             /\ context_summaries'[Len(context_summaries')] = report'.short_summary]_vars
    /\ [](last_report = NoObject <=> context_summaries = << >>)

\* the second cycle of a session has just completed
C29_Witness ==
    /\ entry = "ui"
    /\ pc = "returned"
    /\ context_summaries = << <<"sumA">>, <<"sumB">> >>
    /\ last_report.short_summary = <<"sumB">>
    /\ report = last_report

\* a question that is not empty, has no white space at either end and
\* holds no blank line
WellFormed(q) ==
    /\ q # << >>
    /\ q[1] \notin {" ", "\n", "\n\n"}
    /\ q[Len(q)] \notin {" ", "\n", "\n\n"}
    /\ \A i \in 1..Len(q) : q[i] # "\n\n"
    /\ \A i \in 1..(Len(q) - 1) : ~(q[i] = "\n" /\ q[i + 1] = "\n")

\* C30: when every follow-up question of a report is not empty, has no white
\* space at either end and holds no blank line, the follow-up list the page
\* keeps after the cycle is the report's list, question by question.
C30_FollowupsRoundTrip ==
    (/\ entry = "ui"
     /\ pc = "idle"
     /\ last_report # NoObject
     /\ \A i \in 1..Len(last_report.follow_up_questions) :
           WellFormed(last_report.follow_up_questions[i]))
    => current_followups = last_report.follow_up_questions

C30_Witness ==
    /\ entry = "ui"
    /\ pc = "idle"
    /\ last_report # NoObject
    /\ last_report.follow_up_questions = << <<"f", "\n", "f", "f">>, <<"f">> >>
    /\ current_followups = << <<"f", "\n", "f", "f">>, <<"f">> >>

\* a question with a blank line in it is read back as two questions
C30_BlankLineSplits ==
    /\ entry = "ui"
    /\ pc = "idle"
    /\ last_report # NoObject
    /\ last_report.follow_up_questions = << <<"f", "\n", "\n", "f">> >>
    /\ current_followups = << <<"f">>, <<"f">> >>

=============================================================================
